---- MODULE Spec2Model ----
(***************************************************************************)
(* Model of the browser-extension popup of jobseeker (the App component    *)
(* with chrome.tabs.query / chrome.scripting.executeScript / fetch).       *)
(* The popup state is the three useState cells; each handleSaveOffer call  *)
(* is an attempt that walks through its chained callbacks.                 *)
(***************************************************************************)
EXTENDS Integers, Sequences, FiniteSets

VARIABLES
    activeTabs,     \* what chrome.tabs.query({active, currentWindow}) answers now
    tabInfo,        \* useState({url, title})
    company,        \* useState('')
    statusMessage,  \* useState(''), a string kept as its sequence of pieces
    popupOpen,      \* FALSE once window.close() ran
    validationShown,\* the browser's "fill in this field" report of the required input
    initPending,    \* tab queries of the mount effect not yet answered
    switches,       \* number of times the active tab changed
    edits,          \* number of times the company input was edited
    lastInit,       \* <<>>, or what the last answered mount query was handed and set
    attempts        \* one record per handleSaveOffer invocation, with the
                    \* executeScript and fetch calls it issued

vars == <<activeTabs, tabInfo, company, statusMessage, popupOpen, validationShown,
          initPending, switches, edits, lastInit, attempts>>

-----------------------------------------------------------------------------
(* Bounds *)

MaxAttempts == 2

MaxInit == 2

MaxSwitches == 1

MaxEdits == 2

-----------------------------------------------------------------------------
(* JavaScript values *)

Str(s) == [t |-> "string", s |-> s, n |-> 0]

Num(n) == [t |-> "number", s |-> "", n |-> n]

Undefined == [t |-> "undefined", s |-> "", n |-> 0]

\* ToBoolean(v) = false
Falsy(v) ==
    \/ v.t = "undefined"
    \/ v.t = "string" /\ v.s = ""
    \/ v.t = "number" /\ v.n = 0

\* a || b
OrElse(a, b) == IF Falsy(a) THEN b ELSE a

Digit(d) == <<"0", "1", "2", "3", "4", "5", "6", "7", "8", "9">>[d + 1]

RECURSIVE Digits(_)
Digits(n) == IF n < 10 THEN <<Digit(n)>> ELSE Digits(n \div 10) \o <<Digit(n % 10)>>

\* `${v}` : the pieces a value contributes to a template literal
ToString(v) ==
    CASE v.t = "string" -> <<v.s>>
      [] v.t = "number" -> Digits(v.n)
      [] OTHER -> <<"undefined">>

\* String.prototype.includes on piece sequences
Includes(msg, part) ==
    \E i \in 0..(Len(msg) - Len(part)) :
        /\ Len(part) > 0
        /\ \A j \in 1..Len(part) : msg[i + j] = part[j]

-----------------------------------------------------------------------------
(* The browser *)

AcmeTab == [id |-> Num(1), url |-> Str("https://acme.example/jobs/42"),
            title |-> Str("Backend Engineer - Acme")]

\* a tab whose url the extension is not given
OtherTab == [id |-> Num(2), url |-> Undefined, title |-> Str("Other")]

\* a tab without identifier and without title
NoIdTab == [id |-> Undefined, url |-> Str("devtools://devtools"), title |-> Undefined]

TabQueryResults == {<<>>, <<AcmeTab>>, <<OtherTab>>, <<NoIdTab>>}

\* tabs[0] is an object (truthy) rather than undefined
HasTab(tabs) == Len(tabs) > 0

\* tabs[0], where there is one
First(tabs) == tabs[1]

\* what the executeScript callback is handed: lastError set, no result list,
\* an empty list, or one result per frame
InjectionOutcomes ==
    { [lastError |-> TRUE,  hasResults |-> FALSE, results |-> <<>>],
      [lastError |-> FALSE, hasResults |-> FALSE, results |-> <<>>],
      [lastError |-> FALSE, hasResults |-> TRUE,  results |-> <<>>],
      [lastError |-> FALSE, hasResults |-> TRUE,
       results |-> <<[result |-> Str("Full job description...")]>>],
      [lastError |-> FALSE, hasResults |-> TRUE,
       results |-> <<[result |-> Undefined]>>] }

Responses ==
    { [ok |-> TRUE,  status |-> 201, statusText |-> "Created"],
      [ok |-> FALSE, status |-> 500, statusText |-> "Internal Server Error"],
      [ok |-> FALSE, status |-> 404, statusText |-> "Not Found"] }

\* parsed JSON bodies of a 2xx answer
ResponseData == { [id |-> Num(7)], [id |-> Num(42)], [id |-> Undefined] }

CompanyInputs == {"", "Acme", "Globex"}

-----------------------------------------------------------------------------
(* Texts and constants of the popup *)

IngestUrl == "http://127.0.0.1:8000/api/job_postings/analyze/"

ExtractionErrorMessage == <<"Error: No se pudo extraer la descripción de la página.">>

SaveErrorMessage == <<"Error al guardar. ¿El servidor Django está activo?">>

\* the success text without the id
SuccessMessage_NoId(data) == <<"¡Oferta guardada con éxito!">>

SuccessMessage(data) ==
    <<"¡Oferta guardada con éxito! (ID: ">> \o ToString(data.id) \o <<")">>

\* the Error thrown for a non-2xx answer
RequestError(response) == <<"Error en la solicitud: ", response.statusText>>

-----------------------------------------------------------------------------
(* JSON.stringify of an object whose property values are strings or          *)
(* undefined: a property whose value is undefined is left out.               *)

JSONStringify(obj) ==
    { <<k, obj[k].s>> : k \in { key \in DOMAIN obj : obj[key].t = "string" } }

-----------------------------------------------------------------------------
(* Initial state: the three useState cells after mounting. The mount effect   *)
(* useEffect(..., []) has issued its chrome.tabs.query once per mount;        *)
(* React.StrictMode mounts twice in a development build. A build that mounts  *)
(* once behaves as the runs in which the last answer has not arrived.         *)

Init ==
    /\ activeTabs \in TabQueryResults
    /\ tabInfo = [url |-> Str(""), title |-> Str("")]
    /\ company = ""
    /\ statusMessage = <<>>
    /\ popupOpen = TRUE
    /\ validationShown = FALSE
    /\ initPending = MaxInit
    /\ switches = 0
    /\ edits = 0
    /\ lastInit = <<>>
    /\ attempts = <<>>

\* the user switches to another tab, or the tab navigates
SwitchTab(tabs) ==
    /\ popupOpen
    /\ switches < MaxSwitches
    /\ tabs # activeTabs
    /\ activeTabs' = tabs
    /\ switches' = switches + 1
    /\ UNCHANGED <<tabInfo, company, statusMessage, popupOpen, validationShown,
                   initPending, edits, lastInit, attempts>>

\* setTabInfo without the || '' defaults
TabInfoOf_NoDefault(tab) == [url |-> tab.url, title |-> tab.title]

\* setTabInfo({url: tabs[0].url || '', title: tabs[0].title || ''})
TabInfoOf(tab) ==
    [url |-> OrElse(tab.url, Str("")), title |-> OrElse(tab.title, Str(""))]

\* a callback that appends the tab's title to the title it already holds
InitializeCallback_Accumulates ==
    /\ popupOpen
    /\ initPending > 0
    /\ initPending' = initPending - 1
    /\ tabInfo' = IF HasTab(activeTabs)
                  THEN [url |-> OrElse(First(activeTabs).url, Str("")),
                        title |-> Str(tabInfo.title.s
                                        \o OrElse(First(activeTabs).title, Str("")).s)]
                  ELSE tabInfo
    /\ lastInit' = <<[tabs |-> activeTabs, info |-> tabInfo']>>
    /\ UNCHANGED <<activeTabs, company, statusMessage, popupOpen, validationShown,
                   switches, edits, attempts>>

\* number of mount queries answered so far
InitCount == MaxInit - initPending

\* the callback of the mount effect's query
InitializeCallback ==
    /\ popupOpen
    /\ initPending > 0
    /\ initPending' = initPending - 1
    /\ tabInfo' = IF HasTab(activeTabs) THEN TabInfoOf(First(activeTabs)) ELSE tabInfo
    /\ lastInit' = <<[tabs |-> activeTabs, info |-> tabInfo']>>
    /\ UNCHANGED <<activeTabs, company, statusMessage, popupOpen, validationShown,
                   switches, edits, attempts>>

\* onChange of the company input
SetCompany(value) ==
    /\ popupOpen
    /\ edits < MaxEdits
    /\ value # company
    /\ company' = value
    /\ edits' = edits + 1
    /\ validationShown' = FALSE
    /\ UNCHANGED <<activeTabs, tabInfo, statusMessage, popupOpen, initPending,
                   switches, lastInit, attempts>>

\* the input without its `required` attribute
ValueMissing_Never(value) == FALSE

\* the `required` attribute: the value is missing iff it is the empty string
ValueMissing(value) == value = ""

\* handleSaveOffer, up to its chrome.tabs.query call: tabInfo and company are
\* the closure's (those of the render the handler was created in); tabs,
\* injectionResults, description, response and data are what the callbacks
\* are handed, each a sequence that is empty until its callback ran;
\* injected, fetched and shown are the executeScript, fetch and
\* setStatusMessage calls made, trace the steps taken
NewAttempt ==
    [pc |-> "query", tabInfo |-> tabInfo, company |-> company,
     tabs |-> <<>>, injectionResults |-> <<>>, description |-> Undefined,
     response |-> <<>>, data |-> <<>>,
     injected |-> <<>>, fetched |-> <<>>, shown |-> <<>>, trace |-> <<"query">>]

\* a form whose button is disabled while an attempt is in flight
Submit_Exclusive ==
    /\ popupOpen
    /\ IF ValueMissing(company)
       THEN /\ ~validationShown
            /\ validationShown' = TRUE
            /\ UNCHANGED attempts
       ELSE /\ Len(attempts) < MaxAttempts
            /\ \A a \in 1..Len(attempts) :
                  attempts[a].pc \notin {"query", "inject", "fetch", "json"}
            /\ attempts' = Append(attempts, NewAttempt)
            /\ UNCHANGED validationShown
    /\ UNCHANGED <<activeTabs, tabInfo, company, statusMessage, popupOpen,
                   initPending, switches, edits, lastInit>>

\* the user presses "Guardar Oferta"
Submit ==
    /\ popupOpen
    /\ IF ValueMissing(company)
       THEN /\ ~validationShown
            /\ validationShown' = TRUE
            /\ UNCHANGED attempts
       ELSE /\ Len(attempts) < MaxAttempts
            /\ attempts' = Append(attempts, NewAttempt)
            /\ UNCHANGED validationShown
    /\ UNCHANGED <<activeTabs, tabInfo, company, statusMessage, popupOpen,
                   initPending, switches, edits, lastInit>>

At(a, pc) == a \in 1..Len(attempts) /\ attempts[a].pc = pc

Move(a, pc) ==
    [attempts EXCEPT ![a].pc = pc, ![a].trace = Append(@, pc)]

\* the guard without its identifier test
NoUsableTab_IgnoresId(tabs) == ~HasTab(tabs)

\* if (!activeTab || !activeTab.id) return;
NoUsableTab(tabs) == ~HasTab(tabs) \/ Falsy(tabs[1].id)

\* chrome.scripting.executeScript({target: {tabId: activeTab.id}, func}, ...)
ExecuteScriptCall(activeTab) == [tabId |-> activeTab.id]

\* the callback of handleSaveOffer's query
QueryCallback(a) ==
    /\ popupOpen
    /\ At(a, "query")
    /\ IF NoUsableTab(activeTabs)
       THEN attempts' = [Move(a, "aborted") EXCEPT ![a].tabs = activeTabs]
       ELSE attempts' = [Move(a, "inject") EXCEPT
                            ![a].tabs = activeTabs,
                            ![a].injected = Append(@, ExecuteScriptCall(First(activeTabs)))]
    /\ UNCHANGED <<activeTabs, tabInfo, company, statusMessage, popupOpen,
                   validationShown, initPending, switches, edits, lastInit>>

\* chrome.runtime.lastError || !injectionResults || injectionResults.length === 0
ExtractionFailed(outcome) ==
    outcome.lastError \/ ~outcome.hasResults \/ Len(outcome.results) = 0

\* a payload read from the state cells when the request is built
OfferData_CurrentState(attempt, description) ==
    [title |-> tabInfo.title,
     original_url |-> tabInfo.url,
     company |-> Str(company),
     description |-> description]

\* title and original_url exchanged
OfferData_Swapped(attempt, description) ==
    [title |-> attempt.tabInfo.url,
     original_url |-> attempt.tabInfo.title,
     company |-> Str(attempt.company),
     description |-> description]

OfferData(attempt, description) ==
    [title |-> attempt.tabInfo.title,
     original_url |-> attempt.tabInfo.url,
     company |-> Str(attempt.company),
     description |-> description]

FetchCall(offerData) ==
    [url |-> IngestUrl,
     method |-> "POST",
     headers |-> {<<"Content-Type", "application/json">>},
     body |-> JSONStringify(offerData)]

\* a callback that injects again after a failed extraction
InjectionCallback_Retries(a, outcome) ==
    /\ popupOpen
    /\ At(a, "inject")
    /\ IF ExtractionFailed(outcome)
       THEN /\ statusMessage' = ExtractionErrorMessage
            /\ Len(attempts[a].injected) < 3
            /\ attempts' = [attempts EXCEPT
                                ![a].injectionResults = <<outcome>>,
                                ![a].shown = Append(@, ExtractionErrorMessage),
                                ![a].injected = Append(@, ExecuteScriptCall(First(attempts[a].tabs)))]
       ELSE /\ attempts' = [Move(a, "fetch") EXCEPT
                                ![a].injectionResults = <<outcome>>,
                                ![a].description = outcome.results[1].result,
                                ![a].fetched = Append(@,
                                    FetchCall(OfferData(attempts[a], outcome.results[1].result)))]
            /\ UNCHANGED statusMessage
    /\ UNCHANGED <<activeTabs, tabInfo, company, popupOpen, validationShown,
                   initPending, switches, edits, lastInit>>

\* the callback of executeScript
InjectionCallback(a, outcome) ==
    /\ popupOpen
    /\ At(a, "inject")
    /\ IF ExtractionFailed(outcome)
       THEN /\ statusMessage' = ExtractionErrorMessage
            /\ attempts' = [Move(a, "extractionError") EXCEPT
                                ![a].injectionResults = <<outcome>>,
                                ![a].shown = Append(@, ExtractionErrorMessage)]
       ELSE /\ attempts' = [Move(a, "fetch") EXCEPT
                                ![a].injectionResults = <<outcome>>,
                                ![a].description = outcome.results[1].result,
                                ![a].fetched = Append(@,
                                    FetchCall(OfferData(attempts[a], outcome.results[1].result)))]
            /\ UNCHANGED statusMessage
    /\ UNCHANGED <<activeTabs, tabInfo, company, popupOpen, validationShown,
                   initPending, switches, edits, lastInit>>

\* the .catch handler
CatchMessage(error) == SaveErrorMessage

\* a first .then that closes the popup on a non-2xx answer as well
FetchResolve_ClosesOnError(a, response) ==
    /\ popupOpen
    /\ At(a, "fetch")
    /\ IF response.ok
       THEN /\ attempts' = [Move(a, "json") EXCEPT ![a].response = <<response>>]
            /\ UNCHANGED <<statusMessage, popupOpen>>
       ELSE /\ statusMessage' = CatchMessage(RequestError(response))
            /\ popupOpen' = FALSE
            /\ attempts' = [Move(a, "httpError") EXCEPT
                                ![a].response = <<response>>,
                                ![a].shown = Append(@, CatchMessage(RequestError(response))),
                                ![a].trace = @ \o <<"close">>]
    /\ UNCHANGED <<activeTabs, tabInfo, company, validationShown,
                   initPending, switches, edits, lastInit>>

\* fetch resolved: the first .then, and for a non-2xx answer the throw and the .catch
FetchResolve(a, response) ==
    /\ popupOpen
    /\ At(a, "fetch")
    /\ IF response.ok
       THEN /\ attempts' = [Move(a, "json") EXCEPT ![a].response = <<response>>]
            /\ UNCHANGED statusMessage
       ELSE /\ statusMessage' = CatchMessage(RequestError(response))
            /\ attempts' = [Move(a, "httpError") EXCEPT
                                ![a].response = <<response>>,
                                ![a].shown = Append(@, CatchMessage(RequestError(response)))]
    /\ UNCHANGED <<activeTabs, tabInfo, company, popupOpen, validationShown,
                   initPending, switches, edits, lastInit>>

\* a .catch that issues the request again
FetchReject_Retries(a) ==
    /\ popupOpen
    /\ At(a, "fetch")
    /\ Len(attempts[a].fetched) < 3
    /\ statusMessage' = CatchMessage(<<"Failed to fetch">>)
    /\ attempts' = [attempts EXCEPT
                        ![a].shown = Append(@, CatchMessage(<<"Failed to fetch">>)),
                        ![a].fetched = Append(@, @[1])]
    /\ UNCHANGED <<activeTabs, tabInfo, company, popupOpen, validationShown,
                   initPending, switches, edits, lastInit>>

\* fetch rejected: the request never completed; the .catch
FetchReject(a) ==
    /\ popupOpen
    /\ At(a, "fetch")
    /\ statusMessage' = CatchMessage(<<"Failed to fetch">>)
    /\ attempts' = [Move(a, "networkError") EXCEPT
                        ![a].shown = Append(@, CatchMessage(<<"Failed to fetch">>))]
    /\ UNCHANGED <<activeTabs, tabInfo, company, popupOpen, validationShown,
                   initPending, switches, edits, lastInit>>

\* a second .then that treats a body without id as a failure
JsonResolve_RequiresId(a, data) ==
    /\ popupOpen
    /\ At(a, "json")
    /\ IF data.id.t = "undefined"
       THEN /\ statusMessage' = SaveErrorMessage
            /\ UNCHANGED popupOpen
            /\ attempts' = [Move(a, "parseError") EXCEPT
                                ![a].data = <<data>>,
                                ![a].shown = Append(@, SaveErrorMessage)]
       ELSE /\ statusMessage' = SuccessMessage(data)
            /\ popupOpen' = FALSE
            /\ attempts' = [Move(a, "success") EXCEPT
                                ![a].data = <<data>>,
                                ![a].shown = Append(@, SuccessMessage(data)),
                                ![a].trace = @ \o <<"setStatusMessage", "close">>]
    /\ UNCHANGED <<activeTabs, tabInfo, company, validationShown, initPending,
                   switches, edits, lastInit>>

\* response.json() resolved: the second .then sets the status, then closes
JsonResolve(a, data) ==
    /\ popupOpen
    /\ At(a, "json")
    /\ statusMessage' = SuccessMessage(data)
    /\ popupOpen' = FALSE
    /\ attempts' = [Move(a, "success") EXCEPT
                        ![a].data = <<data>>,
                        ![a].shown = Append(@, SuccessMessage(data)),
                        ![a].trace = @ \o <<"setStatusMessage", "close">>]
    /\ UNCHANGED <<activeTabs, tabInfo, company, validationShown, initPending,
                   switches, edits, lastInit>>

\* a rejected response.json() that no handler catches
JsonReject_Uncaught(a) ==
    /\ popupOpen
    /\ At(a, "json")
    /\ attempts' = Move(a, "unhandledRejection")
    /\ UNCHANGED <<activeTabs, tabInfo, company, statusMessage, popupOpen, validationShown,
                   initPending, switches, edits, lastInit>>

\* response.json() rejected: the body is not JSON; the .catch
JsonReject(a) ==
    /\ popupOpen
    /\ At(a, "json")
    /\ statusMessage' = CatchMessage(<<"Unexpected token">>)
    /\ attempts' = [Move(a, "parseError") EXCEPT
                        ![a].shown = Append(@, CatchMessage(<<"Unexpected token">>))]
    /\ UNCHANGED <<activeTabs, tabInfo, company, popupOpen, validationShown,
                   initPending, switches, edits, lastInit>>

Next ==
    \/ \E tabs \in TabQueryResults : SwitchTab(tabs)
    \/ InitializeCallback
    \/ \E value \in CompanyInputs : SetCompany(value)
    \/ Submit
    \/ \E a \in 1..MaxAttempts : QueryCallback(a)
    \/ \E a \in 1..MaxAttempts : \E outcome \in InjectionOutcomes : InjectionCallback(a, outcome)
    \/ \E a \in 1..MaxAttempts : \E response \in Responses : FetchResolve(a, response)
    \/ \E a \in 1..MaxAttempts : FetchReject(a)
    \/ \E a \in 1..MaxAttempts : \E data \in ResponseData : JsonResolve(a, data)
    \/ \E a \in 1..MaxAttempts : JsonReject(a)

Spec == Init /\ [][Next]_vars

\* the callbacks of attempt a: the browser delivers a tab-query answer and an
\* injection result, and the fetch and response.json() promises settle
Callbacks(a) ==
    \/ QueryCallback(a)
    \/ \E outcome \in InjectionOutcomes : InjectionCallback(a, outcome)
    \/ \E response \in Responses : FetchResolve(a, response)
    \/ FetchReject(a)
    \/ \E data \in ResponseData : JsonResolve(a, data)
    \/ JsonReject(a)

\* The popup opened on the Acme tab by a user who types the company once: the
\* same operations, with fewer moves of the user, and every callback that can
\* fire eventually fires.
LiveInit == Init /\ activeTabs = <<AcmeTab>>

LiveNext ==
    \/ \E tabs \in TabQueryResults : SwitchTab(tabs)
    \/ InitializeCallback
    \/ \E value \in CompanyInputs : edits = 0 /\ SetCompany(value)
    \/ Submit
    \/ \E a \in 1..MaxAttempts : Callbacks(a)

LiveSpec ==
    LiveInit /\ [][LiveNext]_vars /\ \A a \in 1..MaxAttempts : WF_vars(Callbacks(a))

TypeOK ==
    /\ activeTabs \in TabQueryResults
    /\ company \in CompanyInputs
    /\ popupOpen \in BOOLEAN
    /\ initPending \in 0..MaxInit
    /\ switches \in 0..MaxSwitches
    /\ edits \in 0..MaxEdits
    /\ Len(attempts) <= MaxAttempts

-----------------------------------------------------------------------------
(* Vocabulary of the properties *)

Attempts == 1..Len(attempts)

\* attempt a issues an HTTP request in this step
IssuesRequest(a) == Len(attempts'[a].fetched) > Len(attempts[a].fetched)

\* attempt a issues a script injection in this step
IssuesInjection(a) == Len(attempts'[a].injected) > Len(attempts[a].injected)

\* the value sent under key in a request body, as a set (empty if the key is absent)
Sent(request, key) == { pair[2] : pair \in { q \in request.body : q[1] = key } }

\* position of the first occurrence of step in a trace, 0 if there is none
IndexOf(trace, step) ==
    IF \E i \in 1..Len(trace) : trace[i] = step
    THEN CHOOSE i \in 1..Len(trace) :
            trace[i] = step /\ \A j \in 1..(i - 1) : trace[j] # step
    ELSE 0

-----------------------------------------------------------------------------
\* C1 (as stated): no HTTP request is issued in a step taken while the popup's
\* company is the empty string.
C1_AsStated ==
    [][\A a \in Attempts : IssuesRequest(a) => company # ""]_vars

\* C1 (amended): no capture attempt exists whose company, the one the form held
\* when it was submitted, is empty, and every HTTP request issued carries a
\* non-empty company: a submission with an empty company starts nothing.
C1_RequiredFieldGate ==
    \A a \in Attempts :
        /\ attempts[a].company # ""
        /\ \A i \in 1..Len(attempts[a].fetched) :
              /\ Sent(attempts[a].fetched[i], "company") # {}
              /\ "" \notin Sent(attempts[a].fetched[i], "company")

\* a request was issued, the company was cleared afterwards and the next
\* submission was rejected by the form
C1_Witness ==
    /\ validationShown
    /\ company = ""
    /\ \E a \in Attempts : attempts[a].fetched # <<>>

\* C2: after a non-2xx answer the status message the attempt set includes the
\* answer's status text, and the attempt does not close the popup.
C2_HttpFailureShowsStatusText ==
    \A a \in Attempts :
        attempts[a].pc = "httpError" =>
            /\ Len(attempts[a].shown) = 1
            /\ Includes(attempts[a].shown[1], <<attempts[a].response[1].statusText>>)
            /\ IndexOf(attempts[a].trace, "close") = 0

\* C3: the message set when the fetch is rejected is the generic save-error
\* message and differs from the message set for a non-2xx answer.
C3_NetworkFailureDistinct ==
    \A a \in Attempts :
        attempts[a].pc = "networkError" =>
            /\ attempts[a].shown = <<SaveErrorMessage>>
            /\ \A b \in Attempts :
                  attempts[b].pc = "httpError" => attempts[b].shown # attempts[a].shown

\* C4: an attempt whose injection callback was handed a runtime error, no result
\* list or an empty result list has issued no HTTP request, has set the
\* extraction error message as its only status message, has injected once and
\* has stopped.
C4_ExtractionFailure ==
    \A a \in Attempts :
        (/\ attempts[a].injectionResults # <<>>
         /\ \/ attempts[a].injectionResults[1].lastError
            \/ ~attempts[a].injectionResults[1].hasResults
            \/ attempts[a].injectionResults[1].results = <<>>)
        => /\ attempts[a].fetched = <<>>
           /\ attempts[a].shown = <<<<"Error: No se pudo extraer la descripción de la página.">>>>
           /\ attempts[a].shown[1] # SaveErrorMessage
           /\ Len(attempts[a].injected) = 1
           /\ attempts[a].trace = <<"query", "inject", "extractionError">>
           /\ attempts[a].pc = "extractionError"

\* an extraction failed with each of the three causes, in a popup still open
C4_Witness ==
    /\ popupOpen
    /\ statusMessage = <<"Error: No se pudo extraer la descripción de la página.">>
    /\ \E a \in Attempts :
          /\ attempts[a].pc = "extractionError"
          /\ ~attempts[a].injectionResults[1].lastError
          /\ attempts[a].injectionResults[1].hasResults

\* C5: when the 2xx answer's JSON body carries an id, the attempt sets a
\* success message that embeds the id and then closes the popup: the status
\* update comes before the close, the popup is closed and shows that message.
C5_SuccessPath ==
    \A a \in Attempts :
        (attempts[a].data # <<>> /\ attempts[a].data[1].id.t = "number") =>
            /\ attempts[a].pc = "success"
            /\ attempts[a].shown = <<SuccessMessage(attempts[a].data[1])>>
            /\ Includes(statusMessage, Digits(attempts[a].data[1].id.n))
            /\ Includes(statusMessage, <<"¡Oferta guardada con éxito! (ID: ">>)
            /\ ~popupOpen
            /\ IndexOf(attempts[a].trace, "setStatusMessage") > 0
            /\ IndexOf(attempts[a].trace, "setStatusMessage")
                  < IndexOf(attempts[a].trace, "close")

\* the answer {"id": 42} was handled
C5_Witness ==
    \E a \in Attempts :
        /\ attempts[a].pc = "success"
        /\ attempts[a].data[1].id = Num(42)
        /\ statusMessage = <<"¡Oferta guardada con éxito! (ID: ", "4", "2", ")">>

\* C6: in every HTTP request, title and original_url are the title and URL of
\* the tab the attempt's own query reported, the one the description was
\* extracted from.
C6_PayloadFreshness ==
    \A a \in Attempts :
        \A i \in 1..Len(attempts[a].fetched) :
            /\ Sent(attempts[a].fetched[i], "title")
                  = {OrElse(attempts[a].tabs[1].title, Str("")).s}
            /\ Sent(attempts[a].fetched[i], "original_url")
                  = {OrElse(attempts[a].tabs[1].url, Str("")).s}

\* C7: an attempt posts at most once, to the fixed ingest URL, with the header
\* Content-Type: application/json, and when the extractor returned a string the
\* body is exactly title and original_url of the popup's tab information,
\* the company entered, and that string as description.
C7_PayloadContent ==
    \A a \in Attempts :
        /\ Len(attempts[a].fetched) <= 1
        /\ \A i \in 1..Len(attempts[a].fetched) :
              /\ attempts[a].fetched[i].url = "http://127.0.0.1:8000/api/job_postings/analyze/"
              /\ attempts[a].fetched[i].method = "POST"
              /\ attempts[a].fetched[i].headers = {<<"Content-Type", "application/json">>}
              /\ attempts[a].injectionResults[1].results[1].result = attempts[a].description
              /\ attempts[a].description.t = "string" =>
                    attempts[a].fetched[i].body =
                        { <<"title", attempts[a].tabInfo.title.s>>,
                          <<"original_url", attempts[a].tabInfo.url.s>>,
                          <<"company", attempts[a].company>>,
                          <<"description", attempts[a].description.s>> }

\* the payload of the specified example was posted
C7_Witness ==
    \E a \in Attempts :
        /\ Len(attempts[a].fetched) = 1
        /\ attempts[a].fetched[1].body =
              { <<"title", "Backend Engineer - Acme">>,
                <<"original_url", "https://acme.example/jobs/42">>,
                <<"company", "Acme">>,
                <<"description", "Full job description...">> }

\* C8: when the query of an attempt reports no tab, or a tab without
\* identifier, the attempt ends there: nothing is injected, nothing is
\* requested, the status message is unchanged and the popup stays open.
C8_SilentAbort ==
    [][\A a \in Attempts :
          (/\ attempts[a].pc = "query"
           /\ attempts'[a].pc # "query"
           /\ \/ activeTabs = <<>>
              \/ activeTabs[1].id = Undefined)
          => /\ attempts'[a].pc = "aborted"
             /\ attempts'[a].injected = <<>>
             /\ attempts'[a].fetched = <<>>
             /\ attempts'[a].shown = <<>>
             /\ attempts'[a].trace = <<"query", "aborted">>
             /\ \A b \in Attempts : ~IssuesInjection(b) /\ ~IssuesRequest(b)
             /\ statusMessage' = statusMessage
             /\ popupOpen' /\ popupOpen]_vars

\* one attempt was aborted for want of a tab and another for want of an identifier
C8_Witness ==
    \E a, b \in Attempts :
        /\ attempts[a].pc = "aborted" /\ attempts[a].tabs = <<>>
        /\ attempts[b].pc = "aborted" /\ attempts[b].tabs = <<NoIdTab>>
        /\ popupOpen

\* C9: a mount query answered with the same active tab as the mount query
\* answered before it leaves the tab information as that one set it.
C9_IdempotentRead ==
    [][(/\ initPending' = initPending - 1
        /\ lastInit # <<>>
        /\ lastInit[1].tabs = activeTabs)
       => /\ tabInfo' = lastInit[1].info
          /\ tabInfo' = tabInfo]_vars

\* two mount queries were answered with the same tab, which has a title
C9_Witness ==
    /\ InitCount >= 2
    /\ switches = 0
    /\ lastInit[1].tabs = <<AcmeTab>>
    /\ tabInfo.title = Str("Backend Engineer - Acme")

\* C10: a mount query answered with no tab changes neither the tab information,
\* which is still empty if this was the first answer, nor the status message,
\* nor any attempt; answered with a tab that lacks url or title, it sets the
\* empty string for that field.
C10_InitializeNoTab ==
    [][(initPending' = initPending - 1) =>
          /\ activeTabs = <<>> =>
                /\ tabInfo' = tabInfo
                /\ lastInit = <<>> => tabInfo' = [url |-> Str(""), title |-> Str("")]
          /\ activeTabs # <<>> =>
                /\ activeTabs[1].url = Undefined => tabInfo'.url = Str("")
                /\ activeTabs[1].title = Undefined => tabInfo'.title = Str("")
          /\ statusMessage' = statusMessage
          /\ attempts' = attempts
          /\ popupOpen']_vars

\* the only mount query so far was answered with no tab
C10_Witness ==
    /\ InitCount = 1
    /\ lastInit[1].tabs = <<>>
    /\ tabInfo = [url |-> Str(""), title |-> Str("")]
    /\ statusMessage = <<>>

\* the positions in which an attempt waits for a callback
InFlight == {"query", "inject", "fetch", "json"}

\* the positions in which an attempt has ended with an error or an abort
Failed == {"aborted", "extractionError", "httpError", "networkError", "parseError"}

\* C11: an attempt injects at most once and requests at most once; an attempt
\* that ended with an error is never touched again, no callback of it remains,
\* and a step issues a request only for an attempt still waiting for its
\* injection result, so that the requests never outnumber the submissions.
C11_NoRetry ==
    [][/\ \A a \in 1..Len(attempts') :
             /\ Len(attempts'[a].injected) <= 1
             /\ Len(attempts'[a].fetched) <= 1
             /\ Len(attempts'[a].shown) <= 1
       /\ \A a \in Attempts :
             /\ attempts[a].pc \in Failed => attempts'[a] = attempts[a]
             /\ IssuesRequest(a) => attempts[a].pc = "inject" /\ attempts[a].fetched = <<>>
             /\ IssuesInjection(a) => attempts[a].pc = "query" /\ attempts[a].injected = <<>>]_vars

\* after an HTTP error of one attempt a further request went out, issued by a
\* second submission
C11_Witness ==
    \E a, b \in Attempts :
        /\ a # b
        /\ attempts[a].pc = "httpError"
        /\ Len(attempts[a].fetched) = 1
        /\ Len(attempts[b].fetched) = 1
        /\ attempts[b].pc = "fetch"

\* C12: nothing excludes a second submission while an attempt is in flight
\* (whenever the form is valid the submission is possible), and a step of one
\* attempt leaves every other attempt as it is: each runs its own tab query,
\* injection and fetch.
C12_UncoordinatedReentry ==
    [][/\ (/\ popupOpen
           /\ company # ""
           /\ Len(attempts) < MaxAttempts
           /\ \E a \in Attempts : attempts[a].pc \in InFlight)
          => ENABLED Submit
       /\ \A a \in Attempts :
             attempts'[a] # attempts[a] =>
                \A b \in Attempts \ {a} : attempts'[b] = attempts[b]]_vars

\* two requests for the same offer are in flight
C12_Witness ==
    \E a, b \in Attempts :
        /\ a # b
        /\ attempts[a].pc = "fetch"
        /\ attempts[b].pc = "fetch"
        /\ attempts[a].fetched = attempts[b].fetched
        /\ Len(attempts[a].fetched) = 1

\* the positions in which an attempt has ended
Terminal == Failed \cup {"success"}

PayloadKeys == {"title", "original_url", "company", "description"}

\* C14: an attempt builds and sends its payload at most once, and every request
\* body carries a string under each of title, original_url, company and
\* description, whatever the extractor's single result holds.
C14_PayloadCompleteness ==
    \A a \in Attempts :
        /\ Len(attempts[a].fetched) <= 1
        /\ \A i \in 1..Len(attempts[a].fetched) :
              \A key \in PayloadKeys : Sent(attempts[a].fetched[i], key) # {}

\* attempt a sets its status message in this step
SetsStatus(a) == Len(attempts'[a].shown) > Len(attempts[a].shown)

\* C15: within an attempt the injection follows the tab query, the request
\* follows the injection and comes before any status update, and a status
\* update follows the injection; the popup is closed only by the step that
\* handles the parsed JSON body of a 2xx answer, so never by a silent abort, an
\* extraction failure, a non-2xx answer or a network failure.
C15_CloseOnlyOnSuccess ==
    [][/\ \A a \in Attempts :
             /\ IssuesInjection(a) =>
                   /\ attempts[a].trace = <<"query">>
                   /\ attempts[a].fetched = <<>> /\ attempts[a].shown = <<>>
             /\ IssuesRequest(a) =>
                   /\ attempts[a].trace = <<"query", "inject">>
                   /\ Len(attempts[a].injected) = 1
                   /\ attempts[a].shown = <<>> /\ ~SetsStatus(a)
             /\ SetsStatus(a) =>
                   /\ Len(attempts[a].injected) = 1
                   /\ attempts[a].fetched = attempts'[a].fetched
                   /\ attempts[a].fetched = <<>> => attempts'[a].pc = "extractionError"
       /\ (popupOpen /\ ~popupOpen') =>
             \E a \in Attempts :
                /\ attempts[a].pc = "json"
                /\ attempts'[a].pc = "success"
                /\ attempts[a].response # <<>> /\ attempts[a].response[1].ok
                /\ attempts'[a].data # <<>>
                /\ SetsStatus(a)
                /\ Len(attempts[a].fetched) = 1
       /\ \A a \in 1..Len(attempts') :
             IndexOf(attempts'[a].trace, "close") > 0 => attempts'[a].pc = "success"]_vars

\* the popup was closed by a success while another attempt had ended in a
\* network failure
C15_Witness ==
    /\ ~popupOpen
    /\ \E a, b \in Attempts :
          /\ attempts[a].pc = "success"
          /\ attempts[a].trace =
                <<"query", "inject", "fetch", "json", "success", "setStatusMessage", "close">>
          /\ attempts[b].pc = "networkError"

\* C16: an attempt takes company, title and URL from the popup's state in the
\* step that starts it and keeps them: whatever SetCompany or a mount-query
\* answer does later, its request carries those values; an edit of the company
\* changes neither tab information, status message, popup nor any attempt.
C16_Snapshot ==
    [][/\ Len(attempts') > Len(attempts) =>
             /\ attempts'[Len(attempts')].company = company
             /\ attempts'[Len(attempts')].tabInfo = tabInfo
       /\ \A a \in Attempts :
             /\ attempts'[a].company = attempts[a].company
             /\ attempts'[a].tabInfo = attempts[a].tabInfo
             /\ IssuesRequest(a) =>
                   /\ Sent(attempts'[a].fetched[1], "company") = {attempts[a].company}
                   /\ Sent(attempts'[a].fetched[1], "title") = {attempts[a].tabInfo.title.s}
                   /\ Sent(attempts'[a].fetched[1], "original_url") = {attempts[a].tabInfo.url.s}
       /\ company' # company =>
             /\ attempts' = attempts
             /\ UNCHANGED <<tabInfo, statusMessage, popupOpen, activeTabs, initPending>>]_vars

\* a request went out with the company and title of its submission although
\* the company was edited and a mount-query answer replaced the title since
C16_Witness ==
    \E a \in Attempts :
        /\ Len(attempts[a].fetched) = 1
        /\ attempts[a].company # company
        /\ attempts[a].tabInfo.title # tabInfo.title
        /\ Sent(attempts[a].fetched[1], "company") = {"Acme"}
        /\ Sent(attempts[a].fetched[1], "title") = {""}
        /\ tabInfo.title = Str("Backend Engineer - Acme")
        /\ company = "Globex"

====
